---- MODULE Spec2Model ----
(***************************************************************************)
(* A model of betterbanish.c: the device registry (add_device,             *)
(* remove_device, recompute_max_fd, snoop_evdev), the cursor visibility    *)
(* machine (hide_cursor, show_cursor, set_alarm) and the select() loop of  *)
(* main that drives them.  The X server, the kernel's descriptor table,    *)
(* /dev/input and udev are the environment: what they return is drawn      *)
(* from small sets.                                                        *)
(***************************************************************************)
EXTENDS Integers, Sequences, FiniteSets, TLC

VARIABLES
  \* options set by getopt in main (lines 218-271), constant afterwards
  always_hide, keystroke_count, ignored, jitter, move, timeout,
  move_custom_x, move_custom_y, move_custom_mask,
  \* the visibility machine (lines 63-70, 81)
  hiding, current_keystrokes, hide_x, hide_y, move_x, move_y, idle_alarm,
  \* the device registry (lines 74-79); num_keyboards and num_mice are the
  \* lengths of the lists
  keyboard_fds, keyboard_paths, mouse_fds, mouse_paths,
  \* locals of main's loop (lines 314-320, 366, 398)
  pc, fds, max_fd, udev_fd, x11_fd, i,
  \* the kernel: the descriptors this process has open
  open_fds,
  \* the X server: the screen, the pointer, the sync alarms that exist
  \* (alarm id -> "Active" | "Inactive"), the next fresh resource id, and the
  \* events queued on the connection
  screen, ptr, alarms, next_xid, xqueue,
  \* the world outside: the content of /dev/input at the startup scan, the
  \* device nodes that show any activity in this run (input, and hotplug where
  \* plug is set) and the key codes the user may hold down
  devinput, hot, heldkeys,
  \* observation: the step last taken with its inputs, the X requests that
  \* step issued, in order, presses: the key presses made with no ignored
  \* modifier held since the last pointer event that called show_cursor, and
  \* wake: what the loop body handled since select() last returned ("hide": a
  \* key press that reached the threshold, "pointer": motion or a button press
  \* read from a pointer), and hidewarp: while the cursor is hidden by a
  \* hide_cursor that warped the pointer, where the pointer was when that
  \* call began and the x, y the call handed to XWarpPointer
  last, xreq, presses, wake, hidewarp

cfgvars == <<always_hide, keystroke_count, ignored, jitter, move, timeout,
             move_custom_x, move_custom_y, move_custom_mask>>
visvars == <<hiding, hide_x, hide_y, move_x, move_y>>
alarmvars == <<idle_alarm, alarms, next_xid>>
regvars == <<keyboard_fds, keyboard_paths, mouse_fds, mouse_paths, open_fds>>
worldvars == <<screen, devinput, hot, heldkeys>>
vars == <<cfgvars, visvars, current_keystrokes, alarmvars, regvars, pc, fds,
          max_fd, udev_fd, x11_fd, i, ptr, xqueue, worldvars, last, xreq, presses, wake, hidewarp>>

----------------------------------------------------------------------------
(* Program constants *)

MAX_INPUT_DEVICES == 64

MOVE_NW == 1
MOVE_NE == 2
MOVE_SW == 3
MOVE_SE == 4
MOVE_WIN_NW == 5
MOVE_WIN_NE == 6
MOVE_WIN_SW == 7
MOVE_WIN_SE == 8
MOVE_CUSTOM == 9

\* X.h's None, the zero-initialised idle_alarm
None == 0

----------------------------------------------------------------------------
(* Bounds of the model *)

\* current_keystrokes is an int that grows with every counted press; the
\* press handler is not taken beyond this value
MaxKeystrokes == 4
\* resource ids the server hands out for alarms
MaxAlarms == 2
\* events queued on the X connection at one time
MaxXQueue == 2
\* keys reported held by XQueryKeymap at one press
MaxHeld == 1
\* descriptors one select() reports readable
MaxReady == 2

----------------------------------------------------------------------------
(* Helpers *)

Max(a, b) == IF a > b THEN a ELSE b
Min(a, b) == IF a < b THEN a ELSE b
Abs(a) == IF a < 0 THEN -a ELSE a

Range(s) == {s[n] : n \in DOMAIN s}

RemoveAt(s, n) == SubSeq(s, 1, n - 1) \o SubSeq(s, n + 1, Len(s))

\* open(2) returns the lowest descriptor not in use
LowestFree(open) == CHOOSE n \in 0..(Cardinality(open)) : n \notin open /\ \A m \in 0..(n - 1) : m \in open

----------------------------------------------------------------------------
(* The device registry *)

\* A device node as add_device sees it: whether open() succeeds, whether the
\* two capability ioctls succeed, and the bits they report.
Dev(op, evok, ev, keyok, key) == [open |-> op, evok |-> evok, ev |-> ev, keyok |-> keyok, key |-> key]

DevKeyboard == Dev(TRUE, TRUE, {"EV_KEY"}, TRUE, {"KEY_SPACE"})
DevMouse == Dev(TRUE, TRUE, {"EV_KEY", "EV_REL"}, TRUE, {"BTN_MOUSE"})
DevTouch == Dev(TRUE, TRUE, {"EV_KEY", "EV_ABS"}, TRUE, {"BTN_TOUCH"})
\* a keyboard with a built-in pointing stick: passes both tests
DevCombo == Dev(TRUE, TRUE, {"EV_KEY", "EV_REL"}, TRUE, {"KEY_SPACE", "BTN_MOUSE"})
DevButton == Dev(TRUE, TRUE, {"EV_KEY"}, TRUE, {})
DevNoPerm == Dev(FALSE, TRUE, {"EV_KEY"}, TRUE, {"KEY_SPACE"})
DevNoBits == Dev(TRUE, FALSE, {"EV_KEY"}, TRUE, {"KEY_SPACE"})
DevNoKeyBits == Dev(TRUE, TRUE, {"EV_KEY", "EV_REL"}, FALSE, {"KEY_SPACE", "BTN_MOUSE"})

DevKinds == {DevKeyboard, DevMouse, DevTouch, DevCombo, DevButton, DevNoPerm, DevNoBits, DevNoKeyBits}

\* the keyboard test and the pointer test of the classifier, on the bits
IsKeyboardDev(d) == "EV_KEY" \in d.ev /\ "KEY_SPACE" \in d.key
IsPointerDev(d) == ("EV_REL" \in d.ev \/ "EV_ABS" \in d.ev) /\ ("BTN_MOUSE" \in d.key \/ "BTN_TOUCH" \in d.key)

test_bit(bit, array) == bit \in array

\* The registry as a value: the four lists and the descriptor table.
Reg(kf, kp, mf, mp, open) == [keyboard_fds |-> kf, keyboard_paths |-> kp, mouse_fds |-> mf, mouse_paths |-> mp, open_fds |-> open]

TheReg == Reg(keyboard_fds, keyboard_paths, mouse_fds, mouse_paths, open_fds)

num_keyboards(R) == Len(R.keyboard_paths)
num_mice(R) == Len(R.mouse_paths)

add_device_kbd_guard(R, d) == test_bit("EV_KEY", d.ev) /\ num_keyboards(R) < MAX_INPUT_DEVICES

\* the duplicate scan of add_device looking at the keyboard list only
add_device_known_kbd_only(R, path) == path \in Range(R.keyboard_paths)

add_device_known(R, path) == path \in Range(R.keyboard_paths) \/ path \in Range(R.mouse_paths)

\* add_device returning without close(fd) once the device is open: lines
\* 120 and 153 left out
add_device_leak(R, path, d) ==
  IF add_device_known(R, path) THEN [reg |-> R, ret |-> 0]
  ELSE IF ~d.open THEN [reg |-> R, ret |-> 0]
  ELSE LET fd == LowestFree(R.open_fds)
           opened == [R EXCEPT !.open_fds = @ \cup {fd}]
       IN IF ~d.evok THEN [reg |-> opened, ret |-> 0]
          ELSE IF add_device_kbd_guard(R, d) /\ d.keyok /\ test_bit("KEY_SPACE", d.key)
            THEN [reg |-> [opened EXCEPT !.keyboard_fds = Append(@, fd), !.keyboard_paths = Append(@, path)], ret |-> fd]
          ELSE IF (test_bit("EV_REL", d.ev) \/ test_bit("EV_ABS", d.ev)) /\ num_mice(R) < MAX_INPUT_DEVICES
                  /\ d.keyok /\ (test_bit("BTN_MOUSE", d.key) \/ test_bit("BTN_TOUCH", d.key))
            THEN [reg |-> [opened EXCEPT !.mouse_fds = Append(@, fd), !.mouse_paths = Append(@, path)], ret |-> fd]
          ELSE [reg |-> opened, ret |-> 0]

\* add_device: the registry after the call and the value returned
add_device(R, path, d) ==
  IF add_device_known(R, path) THEN [reg |-> R, ret |-> 0]
  ELSE IF ~d.open THEN [reg |-> R, ret |-> 0]
  ELSE LET fd == LowestFree(R.open_fds)
           opened == [R EXCEPT !.open_fds = @ \cup {fd}]
       IN IF ~d.evok THEN [reg |-> R, ret |-> 0]
          ELSE IF add_device_kbd_guard(R, d) /\ d.keyok /\ test_bit("KEY_SPACE", d.key)
            THEN [reg |-> [opened EXCEPT !.keyboard_fds = Append(@, fd), !.keyboard_paths = Append(@, path)], ret |-> fd]
          ELSE IF (test_bit("EV_REL", d.ev) \/ test_bit("EV_ABS", d.ev)) /\ num_mice(R) < MAX_INPUT_DEVICES
                  /\ d.keyok /\ (test_bit("BTN_MOUSE", d.key) \/ test_bit("BTN_TOUCH", d.key))
            THEN [reg |-> [opened EXCEPT !.mouse_fds = Append(@, fd), !.mouse_paths = Append(@, path)], ret |-> fd]
          ELSE [reg |-> R, ret |-> 0]

FirstIndex(s, x) == CHOOSE n \in 1..Len(s) : s[n] = x /\ \A m \in 1..(n - 1) : s[m] # x

\* remove_device filling the gap with the last entry instead of shifting the
\* entries behind it down
remove_device_swap_last(R, path) ==
  LET SwapOut(s, n) == SubSeq([s EXCEPT ![n] = s[Len(s)]], 1, Len(s) - 1)
  IN
  IF path \in Range(R.keyboard_paths)
    THEN LET n == FirstIndex(R.keyboard_paths, path)
         IN [R EXCEPT !.open_fds = @ \ {R.keyboard_fds[n]},
                      !.keyboard_fds = SwapOut(@, n),
                      !.keyboard_paths = SwapOut(@, n)]
  ELSE IF path \in Range(R.mouse_paths)
    THEN LET n == FirstIndex(R.mouse_paths, path)
         IN [R EXCEPT !.open_fds = @ \ {R.mouse_fds[n]},
                      !.mouse_fds = SwapOut(@, n),
                      !.mouse_paths = SwapOut(@, n)]
  ELSE R

remove_device(R, path) ==
  IF path \in Range(R.keyboard_paths)
    THEN LET n == FirstIndex(R.keyboard_paths, path)
         IN [R EXCEPT !.open_fds = @ \ {R.keyboard_fds[n]},
                      !.keyboard_fds = RemoveAt(@, n),
                      !.keyboard_paths = RemoveAt(@, n)]
  ELSE IF path \in Range(R.mouse_paths)
    THEN LET n == FirstIndex(R.mouse_paths, path)
         IN [R EXCEPT !.open_fds = @ \ {R.mouse_fds[n]},
                      !.mouse_fds = RemoveAt(@, n),
                      !.mouse_paths = RemoveAt(@, n)]
  ELSE R

\* the loops of recompute_max_fd: the largest of m and the elements of s
SeqMax(s, m) == CHOOSE x \in Range(s) \cup {m} : \A y \in Range(s) \cup {m} : y <= x

\* recompute_max_fd without its second loop, lines 196-198
recompute_max_fd_kbd_only(R, ufd, xfd) == SeqMax(R.keyboard_fds, Max(ufd, xfd))

recompute_max_fd(R, ufd, xfd) == SeqMax(R.mouse_fds, SeqMax(R.keyboard_fds, Max(ufd, xfd)))

\* snoop_evdev: add_device on every entry of /dev/input, in readdir order,
\* with the directory's own descriptor open meanwhile.  (Comparing added
\* with R has TLC compute each call's registry before the next call is made.)
RECURSIVE AddAll(_, _)
AddAll(R, entries) ==
  IF entries = <<>> THEN R
  ELSE LET added == add_device(R, Head(entries).path, Head(entries).dev).reg
       IN IF added = R THEN AddAll(R, Tail(entries)) ELSE AddAll(added, Tail(entries))

snoop_evdev(R, entries) ==
  LET dirfd == LowestFree(R.open_fds)
      scanned == AddAll([R EXCEPT !.open_fds = @ \cup {dirfd}], entries)
  IN [scanned EXCEPT !.open_fds = @ \ {dirfd}]

----------------------------------------------------------------------------
(* The modifier filter *)

\* A modifier mask as the set of its bit numbers: ShiftMask = {0}, LockMask =
\* {1}, ControlMask = {2}, Mod1Mask .. Mod5Mask = {3} .. {7}; -1 is every bit
\* of the int.
AllBits == 0..31
ModNames == <<"shift", "lock", "control", "mod1", "mod2", "mod3", "mod4", "mod5">>
Mod2Mask == {4}

\* main's table mods[]: the mask a name selects
ModLookup(name) ==
  IF name = "all" THEN AllBits
  ELSE IF \E n \in 1..8 : ModNames[n] = name THEN {(CHOOSE n \in 1..8 : ModNames[n] = name) - 1}
  ELSE {}

\* one -i option: ignored |= mask; "all" then clears Mod2Mask
IgnoreOption(ign, optarg) ==
  LET set == ign \cup ModLookup(optarg)
  IN IF optarg = "all" THEN set \ Mod2Mask ELSE set

RECURSIVE IgnoreOptions(_, _)
IgnoreOptions(ign, opts) ==
  IF opts = <<>> THEN ign ELSE IgnoreOptions(IgnoreOption(ign, Head(opts)), Tail(opts))

\* XGetModifierMapping on a common layout: two key codes per modifier, 0 for
\* an unused slot (shift 50 62, lock 66, control 37 105, mod1 64, mod2 77,
\* mod3 none, mod4 133, mod5 92)
XGetModifierMapping == [max_keypermod |-> 2,
                        modifiermap |-> <<50, 62, 66, 0, 37, 105, 64, 0, 77, 0, 0, 0, 133, 0, 92, 0>>]

\* get_mod_map: per modifier slot 0..7 its mask and its non-zero key codes
get_mod_map(modmap) ==
  [n \in 0..7 |->
     [name |-> ModNames[n + 1],
      mask |-> {n},
      keycodes |-> SelectSeq(SubSeq(modmap.modifiermap, n * modmap.max_keypermod + 1, (n + 1) * modmap.max_keypermod),
                             LAMBDA k : k # 0)]]

mod_map == get_mod_map(XGetModifierMapping)

\* XQueryKeymap: 32 bytes, key code k is bit k % 8 of byte k \div 8
RECURSIVE KeymapByte(_, _, _)
KeymapByte(held, n, b) ==
  IF b > 7 THEN 0
  ELSE (IF 8 * n + b \in held THEN 2 ^ b ELSE 0) + KeymapByte(held, n, b + 1)

XQueryKeymap(held) == [n \in 0..31 |-> KeymapByte(held, n, 0)]

\* the bit test of line 379 reading bit keycode \div 8 of byte keycode % 8
KeyBitSwapped(keys_return, keycode) == (keys_return[keycode % 8] \div (2 ^ (keycode \div 8))) % 2 = 1

\* (keys_return[keycode >> 3] >> (keycode & 7)) & 1
KeyBit(keys_return, keycode) == (keys_return[keycode \div 8] \div (2 ^ (keycode % 8))) % 2 = 1

\* lines 375-385: some key code of some ignored modifier is down
ignore_keystroke(ign, keys_return) ==
  \E n \in 0..7 :
    /\ mod_map[n].mask \cap ign # {}
    /\ \E k \in 1..Len(mod_map[n].keycodes) : KeyBit(keys_return, mod_map[n].keycodes[k])

\* the key codes the server's mapping binds to modifier slot n
BoundKeyCodes(n) ==
  {XGetModifierMapping.modifiermap[k] :
     k \in (n * XGetModifierMapping.max_keypermod + 1)..((n + 1) * XGetModifierMapping.max_keypermod)} \ {0}

\* some key held is bound to a modifier of the ignore set
IgnoredHeld(held) == \E n \in 0..7 : n \in ignored /\ BoundKeyCodes(n) \cap held # {}

\* what XQueryKeymap may report held at a press
HeldSets == {h \in SUBSET heldkeys : Cardinality(h) <= MaxHeld}

----------------------------------------------------------------------------
(* The cursor visibility machine *)

\* The state hide_cursor and show_cursor read and write, as a value: the
\* program's variables, the server's pointer and alarms, and reqs, the X
\* requests issued so far in the step.
TheVis ==
  [hiding |-> hiding, current_keystrokes |-> current_keystrokes,
   hide_x |-> hide_x, hide_y |-> hide_y, move_x |-> move_x, move_y |-> move_y,
   idle_alarm |-> idle_alarm, ptr |-> ptr, alarms |-> alarms, next_xid |-> next_xid,
   reqs |-> <<>>]

Req(name, a, b) == [req |-> name, a |-> a, b |-> b]

Issue(V, r) == [V EXCEPT !.reqs = Append(@, r)]

XWidthOfScreen == screen.w
XHeightOfScreen == screen.h

\* the pointer positions of the screen
Positions == {<<x, y>> : x \in 0..(XWidthOfScreen - 1), y \in 0..(XHeightOfScreen - 1)}

\* XWarpPointer to root coordinates: the server keeps the pointer on the screen
XWarpPointer(V, x, y) ==
  [Issue(V, Req("XWarpPointer", x, y)) EXCEPT
     !.ptr = <<Max(0, Min(x, XWidthOfScreen - 1)), Max(0, Min(y, XHeightOfScreen - 1))>>]

\* the geometries XGetWindowAttributes may report for the window under the
\* pointer
Windows == {[x |-> 1, y |-> 0, width |-> 1, height |-> 2],
            [x |-> 0, y |-> 1, width |-> 2, height |-> 1]}

\* What the server answers during one hide_cursor or show_cursor: whether
\* XQueryPointer returns True (the pointer is on the root's screen), whether
\* XGetWindowAttributes succeeds (there is a window under the pointer and it
\* still exists), and attrs: the geometry reported, or what the uninitialised
\* struct holds when the call failed.
Answers == [qok : BOOLEAN, wok : BOOLEAN, attrs : Windows]

\* the switch of lines 433-471 with the x and y of the window's south-west
\* corner taken from attrs.x twice (the slip the source's comment names)
MoveTargetSwSlip(attrs) ==
  LET w == XWidthOfScreen
      h == XHeightOfScreen
  IN CASE move = MOVE_NW -> <<0, 0>>
       [] move = MOVE_NE -> <<w, 0>>
       [] move = MOVE_SW -> <<0, h>>
       [] move = MOVE_SE -> <<w, h>>
       [] move = MOVE_WIN_NW -> <<attrs.x, attrs.y>>
       [] move = MOVE_WIN_NE -> <<attrs.x + attrs.width, attrs.y>>
       [] move = MOVE_WIN_SW -> <<attrs.x, attrs.x + attrs.height>>
       [] move = MOVE_WIN_SE -> <<attrs.x + attrs.width, attrs.y + attrs.height>>
       [] move = MOVE_CUSTOM -> <<(IF "XNegative" \in move_custom_mask THEN w ELSE 0) + move_custom_x,
                                  (IF "YNegative" \in move_custom_mask THEN h ELSE 0) + move_custom_y>>
       [] OTHER -> <<0, 0>>

\* the switch of lines 433-471: the x, y handed to XWarpPointer
MoveTarget(attrs) ==
  LET w == XWidthOfScreen
      h == XHeightOfScreen
  IN CASE move = MOVE_NW -> <<0, 0>>
       [] move = MOVE_NE -> <<w, 0>>
       [] move = MOVE_SW -> <<0, h>>
       [] move = MOVE_SE -> <<w, h>>
       [] move = MOVE_WIN_NW -> <<attrs.x, attrs.y>>
       [] move = MOVE_WIN_NE -> <<attrs.x + attrs.width, attrs.y>>
       [] move = MOVE_WIN_SW -> <<attrs.x, attrs.y + attrs.height>>
       [] move = MOVE_WIN_SE -> <<attrs.x + attrs.width, attrs.y + attrs.height>>
       [] move = MOVE_CUSTOM -> <<(IF "XNegative" \in move_custom_mask THEN w ELSE 0) + move_custom_x,
                                  (IF "YNegative" \in move_custom_mask THEN h ELSE 0) + move_custom_y>>
       [] OTHER -> <<0, 0>>

\* hide_cursor without the early return of lines 420-421
hide_cursor_guard_none(V) == FALSE

hide_cursor_guard(V) == V.hiding

\* hide_cursor taking hide_x, hide_y from the pointer once more after its
\* warp
hide_cursor_origin_after_warp(V, ans) ==
  IF hide_cursor_guard(V) THEN V
  ELSE
    LET queried == [Issue(V, Req("XQueryPointer", 0, 0)) EXCEPT !.hide_x = V.ptr[1], !.hide_y = V.ptr[2]]
        moved ==
          IF ans.qok /\ move # 0
            THEN LET saved == [Issue(queried, Req("XGetWindowAttributes", 0, 0)) EXCEPT
                                 !.move_x = queried.hide_x, !.move_y = queried.hide_y]
                     target == MoveTarget(ans.attrs)
                     landed == XWarpPointer(saved, target[1], target[2])
                 IN [landed EXCEPT !.hide_x = landed.ptr[1], !.hide_y = landed.ptr[2]]
          ELSE IF ~ans.qok /\ move # 0
            THEN [queried EXCEPT !.move_x = -1, !.move_y = -1]
          ELSE queried
    IN [Issue(moved, Req("XFixesHideCursor", 0, 0)) EXCEPT !.hiding = TRUE]

\* hide_cursor.  XQueryPointer stores the pointer's root coordinates in
\* hide_x, hide_y whatever it returns.
hide_cursor(V, ans) ==
  IF hide_cursor_guard(V) THEN V
  ELSE
    LET queried == [Issue(V, Req("XQueryPointer", 0, 0)) EXCEPT !.hide_x = V.ptr[1], !.hide_y = V.ptr[2]]
        moved ==
          IF ans.qok /\ move # 0
            THEN LET saved == [Issue(queried, Req("XGetWindowAttributes", 0, 0)) EXCEPT
                                 !.move_x = queried.hide_x, !.move_y = queried.hide_y]
                     target == MoveTarget(ans.attrs)
                 IN XWarpPointer(saved, target[1], target[2])
          ELSE IF ~ans.qok /\ move # 0
            THEN [queried EXCEPT !.move_x = -1, !.move_y = -1]
          ELSE queried
    IN [Issue(moved, Req("XFixesHideCursor", 0, 0)) EXCEPT !.hiding = TRUE]

\* set_alarm creating the new alarm without destroying the one held
set_alarm_keep(V) ==
  LET queried == Issue(V, Req("XSyncQueryCounter", 0, 0))
      id == queried.next_xid
  IN [Issue(queried, Req("XSyncCreateAlarm", id, 0)) EXCEPT
        !.idle_alarm = id,
        !.next_xid = id + 1,
        !.alarms = [a \in (DOMAIN @) \cup {id} |-> IF a = id THEN "Active" ELSE @[a]]]

\* set_alarm on idle_alarm: query the counter, destroy the alarm held, create
\* a new one under a fresh id
set_alarm(V) ==
  LET queried == Issue(V, Req("XSyncQueryCounter", 0, 0))
      destroyed ==
        IF queried.idle_alarm # None
          THEN [Issue(queried, Req("XSyncDestroyAlarm", queried.idle_alarm, 0)) EXCEPT
                  !.alarms = [a \in (DOMAIN @) \ {queried.idle_alarm} |-> @[a]]]
          ELSE queried
      id == destroyed.next_xid
  IN [Issue(destroyed, Req("XSyncCreateAlarm", id, 0)) EXCEPT
        !.idle_alarm = id,
        !.next_xid = id + 1,
        !.alarms = [a \in (DOMAIN @) \cup {id} |-> IF a = id THEN "Active" ELSE @[a]]]

\* the jitter test of line 502 with "or" between the axes
within_jitter_or(V, cur_x, cur_y) == (Abs(cur_x - V.hide_x) < jitter) \/ (Abs(cur_y - V.hide_y) < jitter)

\* line 502: both axis deltas from the hide-time position are below jitter
within_jitter(V, cur_x, cur_y) == (Abs(cur_x - V.hide_x) < jitter) /\ (Abs(cur_y - V.hide_y) < jitter)

\* show_cursor resetting the counter only when it reveals
show_cursor_reset_late(V) == IF V.hiding THEN [V EXCEPT !.current_keystrokes = 0] ELSE V

\* line 485: current_keystrokes = 0
show_cursor_reset(V) == [V EXCEPT !.current_keystrokes = 0]

\* lines 490-493: re-arm the idle alarm when a timeout is configured
show_cursor_rearm(V) == IF timeout # 0 THEN set_alarm(V) ELSE V

\* show_cursor setting current_keystrokes to 0 on the paths that go on past
\* the jitter test only
show_cursor_reset_on_reveal(V, ans) ==
  LET armed == show_cursor_rearm(V)
  IN IF ~armed.hiding THEN show_cursor_reset(armed)
     ELSE
       LET queried == IF jitter # 0 THEN Issue(armed, Req("XQueryPointer", 0, 0)) ELSE armed
       IN IF jitter # 0 /\ ~ans.qok THEN queried
          ELSE IF jitter # 0 /\ within_jitter(queried, queried.ptr[1], queried.ptr[2]) THEN queried
          ELSE
            LET warped == IF move # 0 /\ queried.move_x # -1 /\ queried.move_y # -1
                            THEN XWarpPointer(queried, queried.move_x, queried.move_y)
                            ELSE queried
            IN [Issue(show_cursor_reset(warped), Req("XFixesShowCursor", 0, 0)) EXCEPT !.hiding = FALSE]

\* show_cursor warping back without the test of line 510 for an unset target
show_cursor_warp_unchecked(V, ans) ==
  LET armed == show_cursor_rearm(show_cursor_reset(V))
  IN IF ~armed.hiding THEN armed
     ELSE
       LET queried == IF jitter # 0 THEN Issue(armed, Req("XQueryPointer", 0, 0)) ELSE armed
       IN IF jitter # 0 /\ ~ans.qok THEN queried
          ELSE IF jitter # 0 /\ within_jitter(queried, queried.ptr[1], queried.ptr[2]) THEN queried
          ELSE
            LET warped == IF move # 0
                            THEN XWarpPointer(queried, queried.move_x, queried.move_y)
                            ELSE queried
            IN [Issue(warped, Req("XFixesShowCursor", 0, 0)) EXCEPT !.hiding = FALSE]

show_cursor(V, ans) ==
  LET armed == show_cursor_rearm(show_cursor_reset(V))
  IN IF ~armed.hiding THEN armed
     ELSE
       LET queried == IF jitter # 0 THEN Issue(armed, Req("XQueryPointer", 0, 0)) ELSE armed
       IN IF jitter # 0 /\ ~ans.qok THEN queried
          ELSE IF jitter # 0 /\ within_jitter(queried, queried.ptr[1], queried.ptr[2]) THEN queried
          ELSE
            LET warped == IF move # 0 /\ queried.move_x # -1 /\ queried.move_y # -1
                            THEN XWarpPointer(queried, queried.move_x, queried.move_y)
                            ELSE queried
            IN [Issue(warped, Req("XFixesShowCursor", 0, 0)) EXCEPT !.hiding = FALSE]

\* the program's and the server's variables after a step that ends in V
SetVis(V) ==
  /\ hiding' = V.hiding
  /\ current_keystrokes' = V.current_keystrokes
  /\ hide_x' = V.hide_x
  /\ hide_y' = V.hide_y
  /\ move_x' = V.move_x
  /\ move_y' = V.move_y
  /\ idle_alarm' = V.idle_alarm
  /\ ptr' = V.ptr
  /\ alarms' = V.alarms
  /\ next_xid' = V.next_xid
  /\ xreq' = V.reqs
  /\ hidewarp' = LET warps == SelectSeq(V.reqs, LAMBDA r : r.req = "XWarpPointer")
               IN IF ~V.hiding THEN <<>>
                  ELSE IF ~hiding /\ warps # <<>>
                    THEN <<[from |-> ptr, to |-> <<warps[1].a, warps[1].b>>]>>
                  ELSE hidewarp

----------------------------------------------------------------------------
(* The event loop of main *)

SetReg(R) ==
  /\ keyboard_fds' = R.keyboard_fds
  /\ keyboard_paths' = R.keyboard_paths
  /\ mouse_fds' = R.mouse_fds
  /\ mouse_paths' = R.mouse_paths
  /\ open_fds' = R.open_fds

\* the answers that matter to a hide_cursor call: none when it returns at
\* once, the window's only when the query succeeded and a move is configured
NoAnswer == [qok |-> TRUE, wok |-> FALSE, attrs |-> CHOOSE w \in Windows : TRUE]
HideAnswers(V) ==
  IF V.hiding THEN {NoAnswer}
  ELSE {a \in Answers : ~(a.qok /\ move # 0) => (~a.wok /\ a.attrs = NoAnswer.attrs)}
ShowAnswers(V) ==
  IF V.hiding /\ jitter # 0
    THEN {a \in Answers : ~a.wok /\ a.attrs = NoAnswer.attrs}
    ELSE {NoAnswer}

\* the first index n >= from of a descriptor list with FD_ISSET(list[n], r),
\* 0 when there is none (indices count from 1 here, from 0 in the source)
FirstReady(list, r, from) ==
  IF \E n \in from..Len(list) : list[n] \in r
    THEN CHOOSE n \in from..Len(list) : list[n] \in r /\ \A m \in from..(n - 1) : list[m] \notin r
    ELSE 0

\* the loop body going back to the ready keyboards once the pointers are read
MiceFromThenKbd(R, r, from) ==
  LET n == FirstReady(R.mouse_fds, r, from)
      k == FirstReady(R.keyboard_fds, r, 1)
  IN IF n > 0 THEN [pc |-> "mice", i |-> n]
     ELSE IF k > 0 THEN [pc |-> "kbd", i |-> k] ELSE [pc |-> "select", i |-> 0]

\* Where control goes next in the loop body: the X drain (338), the udev
\* block (349), the read of the first ready keyboard (369), of the first
\* ready pointer (400), or back to the top (322).
MiceFrom(R, r, from) ==
  LET n == FirstReady(R.mouse_fds, r, from)
  IN IF n > 0 THEN [pc |-> "mice", i |-> n] ELSE [pc |-> "select", i |-> 0]
KbdFrom(R, r, from) ==
  LET n == FirstReady(R.keyboard_fds, r, from)
  IN IF n > 0 THEN [pc |-> "kbd", i |-> n] ELSE MiceFrom(R, r, 1)
UdevFrom(R, r) == IF udev_fd \in r THEN [pc |-> "udev", i |-> 0] ELSE KbdFrom(R, r, 1)
X11From(R, r) == IF x11_fd \in r THEN [pc |-> "x11", i |-> 0] ELSE UdevFrom(R, r)

\* FD_ZERO at the top of the loop empties fds
Jump(t, r) ==
  /\ pc' = t.pc
  /\ i' = t.i
  /\ fds' = IF t.pc = "select" THEN {} ELSE r
  /\ wake' = IF t.pc = "select" THEN {} ELSE wake

\* line 299: the startup scan of /dev/input
Scan ==
  /\ pc = "scan"
  /\ SetReg(snoop_evdev(TheReg, devinput))
  /\ pc' = "start"
  /\ last' = [op |-> "scan"]
  /\ SetVis(TheVis)
  /\ UNCHANGED <<presses, wake, cfgvars, worldvars, fds, i, max_fd, udev_fd, x11_fd, xqueue>>

\* lines 302-319: always-hide, the udev monitor, the first max_fd
Startup ==
  /\ pc = "start"
  /\ \E ans \in (IF always_hide THEN HideAnswers(TheVis) ELSE {NoAnswer}) :
       /\ SetVis(IF always_hide THEN hide_cursor(TheVis, ans) ELSE TheVis)
       /\ last' = [op |-> "start", ans |-> ans]
  /\ LET ufd == LowestFree(open_fds)
     IN /\ udev_fd' = ufd
        /\ open_fds' = open_fds \cup {ufd}
        /\ max_fd' = recompute_max_fd(TheReg, ufd, x11_fd)
  /\ pc' = "select"
  /\ UNCHANGED <<presses, wake, cfgvars, worldvars, keyboard_fds, keyboard_paths, mouse_fds, mouse_paths,
                 fds, i, x11_fd, xqueue>>

\* the descriptors of the devices that show input in this run
HotFds ==
  {keyboard_fds[n] : n \in {m \in DOMAIN keyboard_fds : keyboard_paths[m] \in {h.path : h \in hot}}}
    \cup {mouse_fds[n] : n \in {m \in DOMAIN mouse_fds : mouse_paths[m] \in {h.path : h \in hot}}}

\* the set handed to select(), lines 323-329
WaitSet == {udev_fd, x11_fd} \cup Range(keyboard_fds) \cup Range(mouse_fds)

\* lines 323-335: select() returns with a non-empty set of readable
\* descriptors; the X connection is readable when events are queued on it
Select ==
  /\ pc = "select"
  /\ \E r \in SUBSET (WaitSet \cap ({udev_fd} \cup HotFds)) :
       LET ready == r \cup (IF xqueue # <<>> THEN {x11_fd} ELSE {})
       IN /\ ready # {}
          /\ Cardinality(ready) <= MaxReady
          /\ Jump(X11From(TheReg, ready), ready)
  /\ last' = [op |-> "select"]
  /\ SetVis(TheVis)
  /\ UNCHANGED <<presses, cfgvars, worldvars, regvars, max_fd, udev_fd, x11_fd, xqueue>>

AlarmNotify(a) == [type |-> "XSyncAlarmNotify", alarm |-> a]
MappingNotify == [type |-> "MappingNotify", alarm |-> None]

\* line 341: timeout && e.type == sync_event + XSyncAlarmNotify
XEventHides(e) == timeout # 0 /\ e.type = "XSyncAlarmNotify"

\* lines 339-345, one turn of the drain: XNextEvent and its handling
XEvent ==
  /\ pc = "x11"
  /\ xqueue # <<>>
  /\ LET e == Head(xqueue)
     IN \E ans \in (IF XEventHides(e) THEN HideAnswers(TheVis) ELSE {NoAnswer}) :
          /\ SetVis(IF XEventHides(e) THEN hide_cursor(TheVis, ans) ELSE TheVis)
          /\ last' = [op |-> "xevent", e |-> e, ans |-> ans]
  /\ xqueue' = Tail(xqueue)
  /\ UNCHANGED <<presses, wake, cfgvars, worldvars, regvars, pc, fds, i, max_fd, udev_fd, x11_fd>>

\* line 339: XPending returns 0, the drain ends
X11Done ==
  /\ pc = "x11"
  /\ xqueue = <<>>
  /\ Jump(UdevFrom(TheReg, fds), fds)
  /\ last' = [op |-> "x11done"]
  /\ SetVis(TheVis)
  /\ UNCHANGED <<presses, cfgvars, worldvars, regvars, max_fd, udev_fd, x11_fd, xqueue>>

\* What udev_monitor_receive_device delivers: an action ("" for a NULL device
\* or action), a device node (0 for NULL) and the device now at that node.
Notifications ==
  LET plugged == {h \in hot : h.plug}
  IN {[action |-> a, path |-> h.path, dev |-> h.dev] : a \in {"add", "remove", "change"}, h \in plugged}
       \cup {[action |-> "", path |-> h.path, dev |-> h.dev] : h \in plugged}
       \cup {[action |-> "add", path |-> 0, dev |-> h.dev] : h \in plugged}

\* lines 349-363: one hotplug notification
Hotplug ==
  /\ pc = "udev"
  /\ \E n \in Notifications :
       LET added == add_device(TheReg, n.path, n.dev)
           R == IF n.action = "" \/ n.path = 0 THEN TheReg
                ELSE IF n.action = "add" THEN added.reg
                ELSE IF n.action = "remove" THEN remove_device(TheReg, n.path)
                ELSE TheReg
       IN /\ SetReg(R)
          /\ max_fd' = IF n.action # "" /\ n.path # 0 THEN recompute_max_fd(R, udev_fd, x11_fd) ELSE max_fd
          /\ Jump(KbdFrom(R, fds, 1), fds)
          /\ last' = [op |-> "hotplug", n |-> n,
                      ret |-> IF n.action = "add" /\ n.path # 0 THEN added.ret ELSE 0]
  /\ SetVis(TheVis)
  /\ UNCHANGED <<presses, cfgvars, worldvars, udev_fd, x11_fd, xqueue>>

Ev(type, value) == [type |-> type, value |-> value]
KbdEvents == {Ev("EV_KEY", 1), Ev("EV_KEY", 0), Ev("EV_KEY", 2), Ev("EV_SYN", 0)}
MouseEvents == {Ev("EV_REL", 1), Ev("EV_ABS", 1), Ev("EV_KEY", 1), Ev("EV_KEY", 0), Ev("EV_SYN", 0)}

\* line 389 hiding only once the count exceeds the threshold
KeystrokesReachedLate(V) == V.current_keystrokes > keystroke_count

\* line 389: current_keystrokes >= keystroke_count
KeystrokesReached(V) == V.current_keystrokes >= keystroke_count

\* line 387 counting a press only while the cursor is visible
KeystrokeCountedVisibleOnly(keys_return) == ~hiding /\ ~ignore_keystroke(ignored, keys_return)

\* line 387: !ignore_keystroke
KeystrokeCounted(keys_return) == ~ignore_keystroke(ignored, keys_return)

\* lines 371-391: a key press, with the keys the server reports held
on_key_press(V, held, ans) ==
  LET keys_return == XQueryKeymap(held)
      asked == Issue(V, Req("XQueryKeymap", 0, 0))
  IN IF KeystrokeCounted(keys_return)
       THEN LET counted == [asked EXCEPT !.current_keystrokes = @ + 1]
            IN IF KeystrokesReached(counted) THEN hide_cursor(counted, ans) ELSE counted
       ELSE asked

IsPress(ev) == ev.type = "EV_KEY" /\ ev.value = 1

\* lines 369-392, one turn of the read loop of keyboard i
KbdRead ==
  /\ pc = "kbd"
  /\ \E ev \in KbdEvents :
       \E held \in (IF IsPress(ev) THEN HeldSets ELSE {{}}) :
         LET counts == IsPress(ev) /\ KeystrokeCounted(XQueryKeymap(held))
             hides == counts /\ KeystrokesReached([TheVis EXCEPT !.current_keystrokes = @ + 1])
         IN /\ counts => current_keystrokes < MaxKeystrokes
            /\ \E ans \in (IF hides THEN HideAnswers(TheVis) ELSE {NoAnswer}) :
                 /\ SetVis(IF IsPress(ev) THEN on_key_press(TheVis, held, ans) ELSE TheVis)
                 /\ last' = [op |-> "key", press |-> IsPress(ev), held |-> held, ans |-> ans]
            /\ presses' = IF IsPress(ev) /\ ~IgnoredHeld(held) THEN presses + 1 ELSE presses
            /\ wake' = IF hides THEN wake \cup {"hide"} ELSE wake
  /\ UNCHANGED <<cfgvars, worldvars, regvars, pc, fds, i, max_fd, udev_fd, x11_fd, xqueue>>

\* line 369: read() on keyboard i returns no event; on to the next ready one
KbdEOF ==
  /\ pc = "kbd"
  /\ Jump(KbdFrom(TheReg, fds, i + 1), fds)
  /\ last' = [op |-> "kbdeof"]
  /\ SetVis(TheVis)
  /\ UNCHANGED <<presses, cfgvars, worldvars, regvars, max_fd, udev_fd, x11_fd, xqueue>>

\* what a pointer's event is to lines 401-407
EventKind(ev) ==
  IF ev.type \in {"EV_REL", "EV_ABS"} THEN "motion"
  ELSE IF ev.type = "EV_KEY" /\ ev.value = 1 THEN "press"
  ELSE "other"

\* lines 401-407 calling show_cursor in always-hide mode too
MouseShowsAlways(ev) == ev.type \in {"EV_REL", "EV_ABS"} \/ (ev.type = "EV_KEY" /\ ev.value = 1)

\* lines 401-407: motion, or a button press, and not always_hide
MouseShows(ev) ==
  /\ ev.type \in {"EV_REL", "EV_ABS"} \/ (ev.type = "EV_KEY" /\ ev.value = 1)
  /\ ~always_hide

\* lines 400-408, one turn of the read loop of pointer i; a motion event
\* comes with the pointer at its new position p
MouseRead ==
  /\ pc = "mice"
  /\ \E ev \in MouseEvents :
       \E p \in (IF ev.type \in {"EV_REL", "EV_ABS"} THEN Positions ELSE {ptr}) :
         LET V == [TheVis EXCEPT !.ptr = p]
         IN /\ (MouseShows(ev) /\ timeout # 0) => next_xid <= MaxAlarms
            /\ \E ans \in (IF MouseShows(ev) THEN ShowAnswers(V) ELSE {NoAnswer}) :
                 /\ SetVis(IF MouseShows(ev) THEN show_cursor(V, ans) ELSE V)
                 /\ last' = [op |-> "mouse", kind |-> EventKind(ev), at |-> p, ans |-> ans]
            /\ presses' = IF EventKind(ev) # "other" /\ ~always_hide THEN 0 ELSE presses
            /\ wake' = IF EventKind(ev) # "other" THEN wake \cup {"pointer"} ELSE wake
  /\ UNCHANGED <<cfgvars, worldvars, regvars, pc, fds, i, max_fd, udev_fd, x11_fd, xqueue>>

\* line 400: read() on pointer i returns no event
MiceEOF ==
  /\ pc = "mice"
  /\ Jump(MiceFrom(TheReg, fds, i + 1), fds)
  /\ last' = [op |-> "miceeof"]
  /\ SetVis(TheVis)
  /\ UNCHANGED <<presses, cfgvars, worldvars, regvars, max_fd, udev_fd, x11_fd, xqueue>>

\* The server: an active alarm's trigger comes true.  It queues an
\* AlarmNotify and, its delta being 0, the alarm turns inactive.
AlarmFire ==
  /\ pc \notin {"scan", "start"}
  /\ Len(xqueue) < MaxXQueue
  /\ \E a \in DOMAIN alarms :
       /\ alarms[a] = "Active"
       /\ xqueue' = Append(xqueue, AlarmNotify(a))
       /\ alarms' = [alarms EXCEPT ![a] = "Inactive"]
       /\ last' = [op |-> "alarm", alarm |-> a]
  /\ xreq' = <<>>
  /\ UNCHANGED <<presses, wake, hidewarp, cfgvars, worldvars, regvars, visvars, current_keystrokes, idle_alarm, next_xid,
                 ptr, pc, fds, i, max_fd, udev_fd, x11_fd>>

\* The server: an event every client gets (a keyboard mapping change)
ServerEvent ==
  /\ pc \notin {"scan", "start"}
  /\ Len(xqueue) < MaxXQueue
  /\ xqueue' = Append(xqueue, MappingNotify)
  /\ last' = [op |-> "mapping"]
  /\ xreq' = <<>>
  /\ UNCHANGED <<presses, wake, hidewarp, cfgvars, worldvars, regvars, visvars, current_keystrokes, alarmvars,
                 ptr, pc, fds, i, max_fd, udev_fd, x11_fd>>

Next ==
  \/ Scan
  \/ Startup
  \/ Select
  \/ XEvent
  \/ X11Done
  \/ Hotplug
  \/ KbdRead
  \/ KbdEOF
  \/ MouseRead
  \/ MiceEOF
  \/ AlarmFire
  \/ ServerEvent

----------------------------------------------------------------------------
(* Startup: the command line, the display, the world *)

\* a command line: -a, -c, the -i options in order, -j, -m, -t
Cfg(a, c, iopts, j, m, t) ==
  [always_hide |-> a, keystroke_count |-> c, iopts |-> iopts, jitter |-> j, move |-> m, timeout |-> t]

Node(path, dev, plug) == [path |-> path, dev |-> dev, plug |-> plug]

\* a display, the /dev/input of the startup scan, and the nodes with activity
World(w, h, entries, nodes, keys) ==
  [screen |-> [w |-> w, h |-> h], devinput |-> entries, hot |-> nodes, heldkeys |-> keys]

\* The state when main reaches the startup scan (line 299): the statics
\* hold their initialisers, the options are parsed, the display is open on
\* the lowest free descriptor.  -m +1-1 is the custom geometry.
InitWith(cfgs, worlds) ==
  \E c \in cfgs, w \in worlds :
    /\ always_hide = c.always_hide
    /\ keystroke_count = c.keystroke_count
    /\ ignored = IgnoreOptions({}, c.iopts)
    /\ jitter = c.jitter
    /\ move = c.move
    /\ timeout = c.timeout
    /\ move_custom_x = IF c.move = MOVE_CUSTOM THEN 1 ELSE 0
    /\ move_custom_y = IF c.move = MOVE_CUSTOM THEN -1 ELSE 0
    /\ move_custom_mask = IF c.move = MOVE_CUSTOM THEN {"XValue", "YValue", "YNegative"} ELSE {}
    /\ hiding = FALSE
    /\ current_keystrokes = 0
    /\ hide_x = 0
    /\ hide_y = 0
    /\ move_x = 0
    /\ move_y = 0
    /\ idle_alarm = None
    /\ keyboard_fds = <<>>
    /\ keyboard_paths = <<>>
    /\ mouse_fds = <<>>
    /\ mouse_paths = <<>>
    /\ x11_fd = LowestFree({0, 1, 2})
    /\ open_fds = {0, 1, 2} \cup {LowestFree({0, 1, 2})}
    /\ udev_fd = -1
    /\ max_fd = -1
    /\ fds = {}
    /\ i = 0
    /\ pc = "scan"
    /\ screen = w.screen
    /\ devinput = w.devinput
    /\ hot = w.hot
    /\ heldkeys = w.heldkeys
    /\ ptr \in {<<x, y>> : x \in 0..(w.screen.w - 1), y \in 0..(w.screen.h - 1)}
    /\ alarms = <<>>
    /\ next_xid = 1
    /\ xqueue = <<>>
    /\ last = [op |-> "init"]
    /\ xreq = <<>>
    /\ presses = 0
    /\ wake = {}
    /\ hidewarp = <<>>

\* key codes: Control_L, Control_R, Shift_L, Num_Lock
Control_L == 37
Control_R == 105
Shift_L == 50
Num_Lock == 77

TheKeyboard == Node(1, DevKeyboard, FALSE)
TheMouse == Node(2, DevMouse, TRUE)

\* one keyboard and one hotpluggable pointer
Desk(w, h, keys) == World(w, h, <<TheKeyboard, TheMouse>>, {TheKeyboard, TheMouse}, keys)

----------------------------------------------------------------------------
(* Specifications: the same program and environment under families of
   command lines and worlds *)

\* -t 1 and nothing else on a one-pixel screen: the idle alarm at work
IdleOnly == InitWith({Cfg(FALSE, 1, <<>>, 0, 0, 1)}, {Desk(1, 1, {})})

\* thresholds 1..3 with nothing ignored and with control ignored
KeyCfgs == {Cfg(FALSE, n, o, 0, 0, 0) : n \in 1..3, o \in {<<>>, <<"control">>}}
Init == InitWith(KeyCfgs, {Desk(1, 1, {Control_L, Control_R, Shift_L, Num_Lock})}) \/ IdleOnly

Spec == Init /\ [][Next]_vars

\* the ignore sets none, control, shift+control, all (numlock excepted), and
\* all with mod2 named before or after it, with threshold 2; control with
\* threshold 1
IgnoreOpts == {<<>>, <<"control">>, <<"shift", "control">>, <<"all">>, <<"mod2", "all">>, <<"all", "mod2">>}
IgnoreCfgs == {Cfg(FALSE, 2, o, 0, 0, 0) : o \in IgnoreOpts} \cup {Cfg(FALSE, 1, <<"control">>, 0, 0, 0)}
InitIgnore == InitWith(IgnoreCfgs, {Desk(1, 1, {Control_L, Control_R, Shift_L, Num_Lock})}) \/ IdleOnly

SpecIgnore == InitIgnore /\ [][Next]_vars

\* threshold 2 with and without jitter, a move policy and an idle timeout, on
\* a screen two pixels wide
CallCfgs == {Cfg(FALSE, 2, <<>>, 0, 0, 0), Cfg(FALSE, 2, <<>>, 1, MOVE_NE, 0),
             Cfg(FALSE, 2, <<>>, 0, 0, 1), Cfg(FALSE, 2, <<>>, 1, MOVE_NE, 1)}
InitCalls == InitWith(CallCfgs, {Desk(2, 1, {})})

SpecCalls == InitCalls /\ [][Next]_vars

\* jitter 1 and 2 on a 3 x 2 screen
JitterCfgs == {Cfg(FALSE, 1, <<>>, j, 0, 0) : j \in {1, 2}}
InitJitter == InitWith(JitterCfgs, {Desk(3, 2, {})}) \/ IdleOnly

SpecJitter == InitJitter /\ [][Next]_vars

\* every move policy on a 2 x 1 screen
MoveCfgs == {Cfg(FALSE, 1, <<>>, 0, m, 0) : m \in MOVE_NW..MOVE_CUSTOM}
InitMove == InitWith(MoveCfgs, {Desk(2, 1, {})}) \/ IdleOnly

SpecMove == InitMove /\ [][Next]_vars

\* always-hide alone, and with jitter, a move policy and an idle timeout
AlwaysCfgs == {Cfg(TRUE, 1, <<>>, 0, 0, 0), Cfg(TRUE, 2, <<>>, 1, MOVE_SE, 1)}
InitAlways == InitWith(AlwaysCfgs, {Desk(2, 1, {})}) \/ IdleOnly

SpecAlways == InitAlways /\ [][Next]_vars

\* n keyboards, or n pointers, found by the startup scan at nodes 101, 102, ...
Keyboards(n) == [k \in 1..n |-> Node(100 + k, DevKeyboard, FALSE)]
Pointers(n) == [k \in 1..n |-> Node(100 + k, DevMouse, FALSE)]

\* two nodes where any kind of device comes and goes
Hotplugging == World(1, 1, <<TheKeyboard, TheMouse>>, {Node(n, d, TRUE) : n \in 1..2, d \in DevKinds}, {})
\* a scan that finds one keyboard more than the list holds, then a keyboard
\* and a keyboard with a pointing stick plugged at node 1, and the first
\* keyboard unplugged and plugged again
ManyKeyboards ==
  World(1, 1, Keyboards(MAX_INPUT_DEVICES + 1) \o <<TheMouse>>,
        {Node(1, DevKeyboard, TRUE), Node(1, DevCombo, TRUE), Node(101, DevKeyboard, TRUE)}, {})
\* the same with pointers
ManyPointers ==
  World(1, 1, Pointers(MAX_INPUT_DEVICES + 1) \o <<TheKeyboard>>,
        {Node(2, DevMouse, TRUE), Node(2, DevTouch, TRUE), Node(101, DevMouse, TRUE)}, {})
InitRegistry == InitWith({Cfg(FALSE, 1, <<>>, 0, 0, 0)}, {Hotplugging, ManyKeyboards, ManyPointers}) \/ IdleOnly

SpecRegistry == InitRegistry /\ [][Next]_vars

----------------------------------------------------------------------------
(* Claims *)

HasReq(reqs, name) == \E k \in 1..Len(reqs) : reqs[k].req = name
Running == pc \notin {"scan", "start"}
\* the step just taken was a pointer event that lines 401-407 answer with
\* show_cursor when always-hide is off
PointerActivity == last.op = "mouse" /\ last.kind # "other"
\* the step just taken was a key press with no ignored modifier held
CountedPress == last.op = "key" /\ last.press /\ ~IgnoredHeld(last.held)

\* C1: with threshold N >= 1, no idle timeout and always-hide off, the cursor
\* is visible while fewer than N presses with no ignored modifier held were
\* made since the last show() (or startup) and hidden from the N-th on: the
\* N-th issues the hide request; a qualifying pointer event then reveals the
\* cursor and sets the counter to 0.
C1_HiddenOnNthPress ==
  (Running /\ keystroke_count >= 1 /\ timeout = 0 /\ ~always_hide) =>
    /\ presses >= keystroke_count => hiding
    /\ jitter = 0 => (hiding => presses >= keystroke_count)
    /\ (CountedPress /\ presses = keystroke_count) => HasReq(xreq, "XFixesHideCursor")
    /\ (CountedPress /\ presses < keystroke_count) => (~hiding /\ ~HasReq(xreq, "XFixesHideCursor"))
    /\ (PointerActivity /\ jitter = 0) => (~hiding /\ current_keystrokes = 0)

\* three presses hid the cursor and a pointer event has just revealed it
C1_Witness ==
  /\ keystroke_count = 3 /\ timeout = 0 /\ ~always_hide
  /\ PointerActivity /\ HasReq(xreq, "XFixesShowCursor") /\ ~hiding /\ current_keystrokes = 0

\* C2: a key press processed while a key code bound to a modifier of the
\* ignore set is held leaves keystrokeCount and the hidden flag as they were
\* and issues no hide; a press with no such key held adds one to
\* keystrokeCount.
C2_IgnoredModifierHeld ==
  [][(last'.op = "key" /\ last'.press) =>
       IF IgnoredHeld(last'.held)
         THEN /\ current_keystrokes' = current_keystrokes
              /\ hiding' = hiding
              /\ ~HasReq(xreq', "XFixesHideCursor")
              /\ ~HasReq(xreq', "XQueryPointer")
         ELSE current_keystrokes' = current_keystrokes + 1]_vars

\* with threshold 1 a press made while the right control key is held has
\* left the cursor visible and the counter at 0
C2_Witness ==
  /\ last.op = "key" /\ last.press /\ last.held = {Control_R} /\ IgnoredHeld(last.held)
  /\ keystroke_count = 1 /\ ~hiding /\ current_keystrokes = 0 /\ Running

\* the step being taken is a pointer event that calls show_cursor
ShowCalled == last'.op = "mouse" /\ last'.kind # "other" /\ ~always_hide

\* what set_alarm issues when it re-arms from the alarm held in idle_alarm
RearmRequests(held, created) ==
  <<Req("XSyncQueryCounter", 0, 0)>>
    \o (IF held # None THEN <<Req("XSyncDestroyAlarm", held, 0)>> ELSE <<>>)
    \o <<Req("XSyncCreateAlarm", created, 0)>>

\* C3 as claimed: in every configuration a show() call made while the state is
\* Visible issues no request to the display and changes no state other than
\* setting keystrokeCount to 0.
C3_ShowWhileVisibleSilent ==
  [][(ShowCalled /\ ~hiding) =>
       /\ xreq' = <<>>
       /\ current_keystrokes' = 0
       /\ UNCHANGED <<visvars, alarmvars>>]_vars

\* C3, amended: a show() call made while the state is Visible sets
\* keystrokeCount to 0, issues no warp and no show-cursor request and leaves
\* the hidden flag, hideOrigin and the move target alone; with no idle timeout
\* it issues no request at all, and with one it re-arms the idle alarm:
\* counter query, destroy of the alarm held (if any), create of a new one.
C3_ShowWhileVisible ==
  [][(ShowCalled /\ ~hiding) =>
       /\ current_keystrokes' = 0
       /\ UNCHANGED visvars
       /\ ptr' = last'.at
       /\ IF timeout = 0
            THEN xreq' = <<>> /\ UNCHANGED alarmvars
            ELSE /\ xreq' = RearmRequests(idle_alarm, idle_alarm')
                 /\ idle_alarm' \notin DOMAIN alarms
                 /\ DOMAIN alarms' = {idle_alarm'}
                 /\ alarms'[idle_alarm'] = "Active"]_vars

\* a pointer event on a visible cursor has re-armed the idle alarm, destroying
\* the one held, and shown nothing
C3_Witness ==
  /\ PointerActivity /\ ~always_hide /\ ~hiding /\ timeout # 0
  /\ HasReq(xreq, "XSyncDestroyAlarm") /\ ~HasReq(xreq, "XFixesShowCursor")

\* the step being taken calls hide_cursor: an alarm-notify with a timeout
\* configured, a counted press that reaches the threshold, or startup in
\* always-hide mode
HideCalled ==
  \/ last'.op = "xevent" /\ last'.e.type = "XSyncAlarmNotify" /\ timeout # 0
  \/ last'.op = "key" /\ last'.press /\ ~IgnoredHeld(last'.held) /\ current_keystrokes' >= keystroke_count
  \/ last'.op = "start" /\ always_hide

\* C4: a hide() call made while the state is Hidden changes neither
\* hideOrigin, the move target, the hidden flag, the alarm nor the pointer,
\* and issues no pointer query, window query, warp or hide-cursor request.
C4_HideWhileHidden ==
  [][(HideCalled /\ hiding) =>
       /\ UNCHANGED <<visvars, alarmvars, ptr>>
       /\ ~HasReq(xreq', "XQueryPointer")
       /\ ~HasReq(xreq', "XGetWindowAttributes")
       /\ ~HasReq(xreq', "XWarpPointer")
       /\ ~HasReq(xreq', "XFixesHideCursor")]_vars

\* an alarm-notify has been handled with a timeout configured and nothing was
\* asked of the server: hide() found the cursor hidden
C4_Witness ==
  /\ last.op = "xevent" /\ last.e.type = "XSyncAlarmNotify" /\ timeout # 0
  /\ hiding /\ xreq = <<>> /\ move # 0

\* C5: with jitter J > 0 and always-hide off, a pointer event processed while
\* the cursor is hidden with the pointer at (cx, cy) keeps it hidden and
\* leaves hideOrigin alone when both |cx - hide_x| and |cy - hide_y| are below
\* J, and reveals it when either is J or more and the position query answers.
C5_JitterThreshold ==
  [][(ShowCalled /\ hiding /\ jitter > 0) =>
       LET cx == last'.at[1]
           cy == last'.at[2]
       IN IF Abs(cx - hide_x) < jitter /\ Abs(cy - hide_y) < jitter
            THEN /\ hiding'
                 /\ hide_x' = hide_x /\ hide_y' = hide_y
                 /\ ~HasReq(xreq', "XFixesShowCursor")
            ELSE last'.ans.qok => (~hiding' /\ HasReq(xreq', "XFixesShowCursor"))]_vars

\* with jitter 2 the pointer has moved off the hide-time position, by less
\* than 2 on both axes, and the cursor is still hidden
C5_Witness ==
  /\ jitter = 2 /\ ~always_hide /\ PointerActivity /\ last.ans.qok
  /\ hiding /\ last.at # <<hide_x, hide_y>> /\ ptr = last.at

\* the step just taken ran hide_cursor through the Visible -> Hidden
\* transition
HideDone == last.op \in {"start", "key", "xevent"} /\ HasReq(xreq, "XFixesHideCursor")

\* the corners the move policies name: of the screen for MOVE_NW .. MOVE_SE,
\* of the window with geometry g for MOVE_WIN_NW .. MOVE_WIN_SE
Corner(policy, g) ==
  LET east == policy \in {MOVE_NE, MOVE_SE, MOVE_WIN_NE, MOVE_WIN_SE}
      south == policy \in {MOVE_SW, MOVE_SE, MOVE_WIN_SW, MOVE_WIN_SE}
  IN IF policy \in {MOVE_NW, MOVE_NE, MOVE_SW, MOVE_SE}
       THEN <<IF east THEN screen.w ELSE 0, IF south THEN screen.h ELSE 0>>
       ELSE <<g.x + (IF east THEN g.width ELSE 0), g.y + (IF south THEN g.height ELSE 0)>>

\* hide_cursor found a pointer position and, for a window policy, a window
CornerCase(ans) ==
  /\ ans.qok
  /\ \/ move \in {MOVE_NW, MOVE_NE, MOVE_SW, MOVE_SE}
     \/ move \in {MOVE_WIN_NW, MOVE_WIN_NE, MOVE_WIN_SW, MOVE_WIN_SE} /\ ans.wok

WarpsOf(reqs) == SelectSeq(reqs, LAMBDA r : r.req = "XWarpPointer")

\* C6 as claimed: after every hide() that goes from Visible to Hidden with a
\* successful pointer query, the move target recorded (move_x, move_y) is the
\* screen corner of a screen-corner policy, and the corner of the window
\* under the pointer of a window-corner policy.
C6_RecordedTargetIsCorner ==
  (HideDone /\ CornerCase(last.ans)) => <<move_x, move_y>> = Corner(move, last.ans.attrs)

\* C6, amended: such a hide() issues one warp, to the screen corner of a
\* screen-corner policy whatever window is under the pointer and to the
\* corner of the window under the pointer of a window-corner policy; what it
\* records in (move_x, move_y) is the position the pointer had when it was
\* queried, which is hideOrigin.
C6_WarpToCorner ==
  [][(HideDone' /\ CornerCase(last'.ans)) =>
       LET corner == Corner(move, last'.ans.attrs)
       IN /\ WarpsOf(xreq') = <<Req("XWarpPointer", corner[1], corner[2])>>
          /\ <<move_x', move_y'>> = ptr
          /\ <<hide_x', hide_y'>> = ptr]_vars

\* a hide with the south-west window corner policy has warped and recorded a
\* position that is not that corner
C6_Witness ==
  /\ HideDone /\ CornerCase(last.ans) /\ move = MOVE_WIN_SW
  /\ WarpsOf(xreq) # <<>>
  /\ <<move_x, move_y>> # Corner(move, last.ans.attrs)

\* the step taken is a hotplug add of a device node
AddCalled(n) == n.action = "add" /\ n.path # 0

\* no path twice in the two lists together, neither list over capacity
RegistryBounded ==
  /\ Cardinality(Range(keyboard_paths \o mouse_paths)) = Len(keyboard_paths) + Len(mouse_paths)
  /\ Len(keyboard_paths) <= 64
  /\ Len(mouse_paths) <= 64

\* C7: whatever the startup scan and the hotplug events do, no path is
\* registered twice across the keyboard and the pointer list, neither list
\* holds more than 64 entries, and an add of a registered path changes
\* nothing and opens no descriptor.
C7_RegistryNoDuplicates ==
  /\ []RegistryBounded
  /\ [][(last'.op = "hotplug" /\ AddCalled(last'.n)
           /\ last'.n.path \in Range(keyboard_paths) \cup Range(mouse_paths)) =>
          (UNCHANGED regvars /\ last'.ret = 0)]_vars

\* with 64 keyboards registered, one more has been plugged in and dropped
C7_Witness ==
  /\ Len(keyboard_paths) = 64
  /\ last.op = "hotplug" /\ AddCalled(last.n) /\ last.n.dev = DevKeyboard
  /\ last.n.path \notin Range(keyboard_paths) \cup Range(mouse_paths)
  /\ last.ret = 0

\* C8: in always-hide mode the cursor is hidden once startup is over and in
\* every state after; no pointer event calls show(): it asks nothing of the
\* display, resets no counter and arms no alarm, in any interleaving with
\* keystrokes, hotplug events and alarm notifications.
C8_AlwaysHidden ==
  always_hide =>
    /\ Running => hiding
    /\ ~HasReq(xreq, "XFixesShowCursor")
    /\ last.op = "mouse" => xreq = <<>>
    /\ current_keystrokes = presses
    /\ idle_alarm = None

\* in always-hide mode with a timeout, a move policy and jitter, a pointer
\* motion after a key press has left the cursor hidden
C8_Witness ==
  /\ always_hide /\ timeout # 0 /\ move # 0 /\ jitter # 0
  /\ PointerActivity /\ last.kind = "motion" /\ presses > 0 /\ hiding

\* C9: an add of a device that passes both the keyboard test and the pointer
\* test never registers it in the pointer list, the keyboard list at capacity
\* included, and no path is in both lists.
C9_KeyboardPriority ==
  /\ (last.op = "hotplug" /\ AddCalled(last.n) /\ last.ret # 0
        /\ IsKeyboardDev(last.n.dev) /\ IsPointerDev(last.n.dev)) =>
       last.n.path \notin Range(mouse_paths)
  /\ Range(keyboard_paths) \cap Range(mouse_paths) = {}

\* C10: the drain of display events hides the cursor only for the notify of
\* the alarm now armed, with a timeout configured: not for the notify of an
\* alarm a later re-arm destroyed, and for no event without a timeout; and
\* the notify of the alarm now armed leaves the cursor hidden.
C10_CurrentAlarmOnly ==
  last.op = "xevent" =>
    /\ HasReq(xreq, "XFixesHideCursor") =>
         (timeout # 0 /\ last.e.type = "XSyncAlarmNotify" /\ last.e.alarm = idle_alarm)
    /\ (timeout # 0 /\ last.e.type = "XSyncAlarmNotify" /\ last.e.alarm = idle_alarm) => hiding

\* the step being taken is a key press
PressRead == last'.op = "key" /\ last'.press

\* C11 as claimed: a key press processed while the cursor is hidden leaves
\* keystrokeCount, the hidden flag, hideOrigin and the move target unchanged.
C11_PressWhileHiddenIgnored ==
  [][(PressRead /\ hiding) => (current_keystrokes' = current_keystrokes /\ UNCHANGED visvars)]_vars

\* C11, amended: a key press processed while the cursor is hidden leaves the
\* hidden flag, hideOrigin, the move target, the alarm and the pointer
\* unchanged and asks the display for the keymap only; it adds one to
\* keystrokeCount unless a key of an ignored modifier is held, so the count
\* grows during a run of presses while the cursor stays hidden.
C11_PressWhileHiddenCounts ==
  [][(PressRead /\ hiding) =>
       /\ UNCHANGED <<visvars, alarmvars, ptr>>
       /\ xreq' = <<Req("XQueryKeymap", 0, 0)>>
       /\ current_keystrokes' =
            IF IgnoredHeld(last'.held) THEN current_keystrokes ELSE current_keystrokes + 1]_vars

\* two presses beyond the threshold were counted while the cursor was hidden
C11_Witness ==
  /\ last.op = "key" /\ last.press /\ hiding /\ ~always_hide
  /\ current_keystrokes = keystroke_count + 2

\* the notify of alarm a is queued on the connection
NotifyQueued(a) == \E k \in 1..Len(xqueue) : xqueue[k] = AlarmNotify(a)

\* C12: with an idle timeout and always-hide off, whenever the loop waits
\* with the cursor visible, the first wait included, an idle alarm is armed:
\* idle_alarm names an alarm of the server that is active, or has fired with
\* its notify still to be read, so that a long enough time without input
\* ends in hide().
C12_VisibleHasAlarm ==
  (timeout # 0 /\ ~always_hide /\ pc = "select" /\ ~hiding) =>
    /\ idle_alarm # None
    /\ idle_alarm \in DOMAIN alarms
    /\ alarms[idle_alarm] = "Active" \/ NotifyQueued(idle_alarm)

\* the alarms the requests of a step destroy, and those they create
DestroyedBy(reqs) == SelectSeq(reqs, LAMBDA r : r.req = "XSyncDestroyAlarm")
CreatedBy(reqs) == SelectSeq(reqs, LAMBDA r : r.req = "XSyncCreateAlarm")

\* the alarms created and not destroyed are the one idle_alarm names, which
\* is the one created last
OneAlarm ==
  /\ DOMAIN alarms = (IF idle_alarm = None THEN {} ELSE {idle_alarm})
  /\ idle_alarm # None => idle_alarm = next_xid - 1

\* C13: with an idle timeout, after any sequence of show() calls at most one
\* alarm exists, the one the latest show() created; a show() that holds an
\* alarm destroys that alarm, which still exists then and exists no more
\* after, and creates one new alarm: no alarm is destroyed twice.
C13_OneAlarm ==
  /\ [](timeout # 0 => OneAlarm)
  /\ [][(ShowCalled /\ timeout # 0) =>
          /\ DestroyedBy(xreq') =
               (IF idle_alarm # None THEN <<Req("XSyncDestroyAlarm", idle_alarm, 0)>> ELSE <<>>)
          /\ idle_alarm # None => (idle_alarm \in DOMAIN alarms /\ idle_alarm \notin DOMAIN alarms')
          /\ CreatedBy(xreq') = <<Req("XSyncCreateAlarm", idle_alarm', 0)>>
          /\ idle_alarm' = next_xid]_vars

\* a pointer event that jitter kept from revealing the cursor has destroyed
\* the alarm held and created another
C13_Witness ==
  /\ PointerActivity /\ ~always_hide /\ timeout # 0 /\ jitter # 0 /\ hiding
  /\ DestroyedBy(xreq) # <<>> /\ idle_alarm \in DOMAIN alarms
  /\ ~HasReq(xreq, "XFixesShowCursor")

\* the warps and show-cursor requests of a step, in the order issued
WarpsAndShows(reqs) == SelectSeq(reqs, LAMBDA r : r.req \in {"XWarpPointer", "XFixesShowCursor"})

\* C14: with a move policy, a hide() whose pointer query succeeded records
\* the position queried and one whose query failed records an unset target;
\* a show() that reveals the cursor after the former issues exactly one warp,
\* before the show-cursor request, that puts the pointer back at that
\* position, and after the latter issues no warp; a show() that does not
\* reveal issues no warp.
C14_WarpBack ==
  /\ []((HideDone /\ move # 0) =>
          <<move_x, move_y>> = (IF last.ans.qok THEN <<hide_x, hide_y>> ELSE <<-1, -1>>))
  /\ []((Running /\ hiding /\ move # 0) => <<move_x, move_y>> \in {<<hide_x, hide_y>>, <<-1, -1>>})
  /\ [][(ShowCalled /\ move # 0) =>
          IF hiding /\ ~hiding'
            THEN IF <<move_x, move_y>> = <<hide_x, hide_y>>
                   THEN /\ WarpsAndShows(xreq') =
                             <<Req("XWarpPointer", hide_x, hide_y), Req("XFixesShowCursor", 0, 0)>>
                        /\ ptr' = <<hide_x, hide_y>>
                   ELSE /\ WarpsOf(xreq') = <<>>
                        /\ ptr' = last'.at
            ELSE WarpsOf(xreq') = <<>> /\ ptr' = last'.at]_vars

\* a pointer motion to another position has revealed the cursor and the
\* pointer is back where hide() found it, not at the corner it was warped to
\* nor where the motion took it
C14_Witness ==
  /\ PointerActivity /\ ~always_hide /\ move = MOVE_NE /\ ~hiding
  /\ WarpsOf(xreq) # <<>> /\ ptr = <<hide_x, hide_y>> /\ last.at # ptr

\* a role list as the sequence of its <<path, descriptor>> entries
Entries(paths, descs) == [k \in 1..Len(paths) |-> <<paths[k], descs[k]>>]
\* the entries other than those of path, in their order
EntriesBut(entries, path) == SelectSeq(entries, LAMBDA e : e[1] # path)
\* the descriptors registered for path
DescriptorsOf(path) ==
  {keyboard_fds[k] : k \in {j \in DOMAIN keyboard_paths : keyboard_paths[j] = path}}
    \cup {mouse_fds[k] : k \in {j \in DOMAIN mouse_paths : mouse_paths[j] = path}}

\* C15: a remove of a registered path takes exactly that one entry out of
\* the lists and closes exactly its descriptor; every other entry of both
\* lists keeps its path, its descriptor, its list and its place among the
\* others; a remove of a path not registered changes no list and no
\* descriptor.
C15_RemoveExactlyOne ==
  [][(last'.op = "hotplug" /\ last'.n.action = "remove" /\ last'.n.path # 0) =>
       LET path == last'.n.path
       IN IF path \in Range(keyboard_paths) \cup Range(mouse_paths)
            THEN /\ Entries(keyboard_paths', keyboard_fds') =
                      EntriesBut(Entries(keyboard_paths, keyboard_fds), path)
                 /\ Entries(mouse_paths', mouse_fds') = EntriesBut(Entries(mouse_paths, mouse_fds), path)
                 /\ Len(keyboard_paths') + Len(mouse_paths') = Len(keyboard_paths) + Len(mouse_paths) - 1
                 /\ Cardinality(DescriptorsOf(path)) = 1
                 /\ open_fds' = open_fds \ DescriptorsOf(path)
            ELSE UNCHANGED regvars]_vars

\* the first of 64 keyboards has been unplugged: 63 are left
C15_Witness ==
  /\ last.op = "hotplug" /\ last.n.action = "remove"
  /\ last.n.path \notin Range(keyboard_paths) /\ Len(keyboard_paths) = 63

\* the reasons for which an add registers nothing: the path is registered,
\* the open or a capability query fails, the device passes neither test, or
\* it passes one test only and the list of that role is full
Refused(path, d) ==
  \/ path \in Range(keyboard_paths) \cup Range(mouse_paths)
  \/ ~d.open \/ ~d.evok \/ ~d.keyok
  \/ ~IsKeyboardDev(d) /\ ~IsPointerDev(d)
  \/ IsKeyboardDev(d) /\ ~IsPointerDev(d) /\ Len(keyboard_paths) = 64
  \/ IsPointerDev(d) /\ ~IsKeyboardDev(d) /\ Len(mouse_paths) = 64

\* the descriptors open are the standard three, the display's, the hotplug
\* monitor's once it is made, and one for each registered device
OnlyRegisteredOpen ==
  /\ open_fds = {0, 1, 2, x11_fd} \cup (IF udev_fd >= 0 THEN {udev_fd} ELSE {})
                  \cup Range(keyboard_fds) \cup Range(mouse_fds)
  /\ Cardinality(Range(keyboard_fds) \cup Range(mouse_fds)) = Len(keyboard_fds) + Len(mouse_fds)
  /\ Range(keyboard_fds) \cap {0, 1, 2, x11_fd, udev_fd} = {}
  /\ Range(mouse_fds) \cap {0, 1, 2, x11_fd, udev_fd} = {}

\* C16: an add that registers nothing (path registered, open failure,
\* capability query failure, neither role, list of the role full) returns 0,
\* leaves both lists and the open descriptors as they were, and the loop
\* goes on; between operations the open descriptors of devices are those
\* registered.
C16_FailedAddLeavesNothing ==
  /\ [](pc # "scan" => OnlyRegisteredOpen)
  /\ [][(last'.op = "hotplug" /\ AddCalled(last'.n) /\ Refused(last'.n.path, last'.n.dev)) =>
          /\ last'.ret = 0
          /\ UNCHANGED regvars
          /\ pc' \in {"kbd", "mice", "select"}]_vars

\* a device whose capability query fails has been added: nothing is
\* registered for its node and nothing more is open
C16_Witness ==
  /\ last.op = "hotplug" /\ AddCalled(last.n) /\ last.n.dev = DevNoBits /\ last.ret = 0
  /\ last.n.path \notin Range(keyboard_paths) \cup Range(mouse_paths)
  /\ OnlyRegisteredOpen

\* C17: at every select(), after any hotplug adds and removes, the set
\* waited on is the display's descriptor, the hotplug monitor's and the
\* descriptors of the registered devices, which are the descriptors this
\* process has open beyond the standard three (none of a removed device,
\* none missing of an added one), and max_fd is at least each of them.
C17_WaitSetIsRegistry ==
  pc = "select" =>
    /\ WaitSet = open_fds \ {0, 1, 2}
    /\ WaitSet = {x11_fd, udev_fd} \cup {keyboard_fds[k] : k \in 1..Len(keyboard_paths)}
                   \cup {mouse_fds[k] : k \in 1..Len(mouse_paths)}
    /\ \A fd \in WaitSet : fd <= max_fd

\* the loop waits again after an add that registered a device under the
\* highest descriptor so far
C17_Witness ==
  /\ pc = "select" /\ last.op = "hotplug" /\ AddCalled(last.n)
  /\ last.ret # 0 /\ last.ret = max_fd /\ last.ret \in Range(mouse_fds)

\* ---- C18 ----

\* the place of each block in the loop body, lines 322-411
Stage(p) ==
  CASE p = "select" -> 0
    [] p = "x11" -> 1
    [] p = "udev" -> 2
    [] p = "kbd" -> 3
    [] p = "mice" -> 4
    [] OTHER -> 0

\* the ready descriptors of list s that come after place n
ReadyAfter(s, n) == {k \in DOMAIN s : k > n /\ s[k] \in fds}

\* One step of a wake keeps the order of the loop body: control moves to a
\* later block or back to select(); the X block is left with the queue
\* drained; one hotplug notification is handled and the udev block is left;
\* a keyboard or pointer is followed by the next ready one, and its block is
\* left only when no ready one remains.
WakeOrdered ==
  (pc \in {"x11", "udev", "kbd", "mice"}) =>
    /\ pc' = "select" \/ Stage(pc') >= Stage(pc)
    /\ (pc = "x11" /\ pc' # "x11") => xqueue = <<>>
    /\ (pc = "udev" /\ last'.op = "hotplug") => pc' # "udev"
    /\ (pc = "kbd" /\ pc' = "kbd") => (i' = i \/ i' \in ReadyAfter(keyboard_fds, i))
    /\ (pc = "kbd" /\ pc' # "kbd") => ReadyAfter(keyboard_fds, i) = {}
    /\ (pc = "mice" /\ pc' = "mice") => (i' = i \/ i' \in ReadyAfter(mouse_fds, i))
    /\ (pc = "mice" /\ pc' # "mice") => (pc' = "select" /\ ReadyAfter(mouse_fds, i) = {})

\* a wake that handled both a threshold-reaching key press and a pointer
\* motion or button press, with always-hide off and jitter 0
BothHandled == {"hide", "pointer"} \subseteq wake /\ ~always_hide /\ jitter = 0

\* C18: within one wake the loop handles the display events, then one
\* hotplug notification, then the ready keyboards, then the ready pointers,
\* and so a wake that handled both a threshold-reaching key press and a
\* qualifying pointer event, with always-hide off and jitter 0, has the
\* cursor visible and the keystroke count at 0.
C18_WakeOrder ==
  /\ [][WakeOrdered]_vars
  /\ [](BothHandled => (~hiding /\ current_keystrokes = 0))

\* a wake in which the press that hid the cursor and a pointer event were
\* both handled, the pointer's blocks being read last
C18_Witness ==
  /\ BothHandled
  /\ pc = "mice"
  /\ last.op = "mouse"
  /\ ~hiding
  /\ current_keystrokes = 0

\* ---- C19 ----

\* C19: with a threshold of at least 1, whenever the cursor is visible
\* between two event handlings the keystroke count is at least 0 and below
\* the threshold, and the count is 0 right after every call of show_cursor,
\* the calls that return early (cursor already visible, pointer query
\* failed, motion within the jitter) included.
C19_CountBelowThreshold ==
  /\ []((~hiding /\ keystroke_count >= 1) =>
          (0 <= current_keystrokes /\ current_keystrokes < keystroke_count))
  /\ [][ShowCalled => current_keystrokes' = 0]_vars

\* show_cursor has just returned at the jitter test on a hidden cursor whose
\* count had reached a threshold of 2: still hidden, the count back at 0
C19_Witness ==
  /\ last.op = "mouse"
  /\ last.kind # "other"
  /\ ~always_hide
  /\ jitter # 0
  /\ timeout = 0
  /\ last.ans.qok
  /\ keystroke_count = 2
  /\ hiding
  /\ current_keystrokes = 0

\* ---- C20 ----

\* jitter on a hide that warps: thresholds 1 and 2 with the north-west
\* corner of the screen and of the window under the pointer
OriginCfgs == {Cfg(FALSE, 1, <<>>, j, m, 0) : j \in {1, 2}, m \in {MOVE_NW, MOVE_WIN_NW}}
InitOrigin == InitWith(OriginCfgs, {Desk(3, 1, {})}) \/ IdleOnly

SpecOrigin == InitOrigin /\ [][Next]_vars

\* position q is at least jitter away from position p on some axis
FarOnSomeAxis(p, q) == Abs(q[1] - p[1]) >= jitter \/ Abs(q[2] - p[2]) >= jitter

\* show_cursor is called for a pointer event read while the cursor is hidden
\* by a hide_cursor that warped, the pointer being at the x, y of that warp
\* and the server answering the pointer query
ShowAtWarpTarget ==
  /\ ShowCalled
  /\ hiding
  /\ move # 0
  /\ jitter > 0
  /\ hidewarp # <<>>
  /\ last'.at = hidewarp[1].to
  /\ last'.ans.qok

\* C20: hide_x, hide_y hold the position the pointer had when hide_cursor
\* queried it, before its warp, and the warp leaves them alone; so with a
\* move policy and a jitter J > 0 a pointer event handled while the pointer
\* rests at the warp target reveals the cursor exactly when that target is
\* at least J away from the pre-warp position on some axis.
C20_JitterFromPreWarp ==
  /\ [](hidewarp # <<>> => <<hide_x, hide_y>> = hidewarp[1].from)
  /\ [][ShowAtWarpTarget => (~hiding' <=> FarOnSomeAxis(hidewarp[1].from, hidewarp[1].to))]_vars

\* a pointer event at the warp target has revealed the cursor: the pointer
\* was 2 or more columns from the north-west corner when it was hidden
C20_Witness ==
  /\ last.op = "mouse"
  /\ last.kind # "other"
  /\ last.ans.qok
  /\ ~hiding
  /\ jitter = 2
  /\ move = MOVE_NW
  /\ HasReq(xreq, "XFixesShowCursor")
  /\ last.at = <<0, 0>>
  /\ <<hide_x, hide_y>> = <<2, 0>>

====
